---- MODULE Spec2Model ----
(***************************************************************************)
(* Ledger of the toy transaction processor (src/src/lib.rs, duplicated in  *)
(* src/src/main.rs): read_csv feeds each row of the input to               *)
(* process_record, which finds the client in the Vec<Client> and           *)
(* dispatches to process_deposit / process_withdrawal / process_dispute /  *)
(* process_resolve / process_chargeback, or creates the client on a first  *)
(* deposit.  main prints the error and exits with code 1 when read_csv     *)
(* returns Err, and prints the header and one line per client otherwise.   *)
(*                                                                         *)
(* Amounts are f32 in the source.  The model carries integer-valued        *)
(* amounts and rounds every arithmetic result to a 24-bit significand      *)
(* (F32Round), to nearest with ties to even; the amounts written in rows   *)
(* include 2^24, so sums that f32 cannot hold exactly are reached.         *)
(* Fractional amounts, infinities and NaN are outside the explored inputs. *)
(***************************************************************************)
EXTENDS Integers, Sequences, FiniteSets, TLC

\* ------------------------------------------------------------------ bounds
MaxRecords == 4      \* rows of the input file that are replayed
SmallAmount == 1     \* the small positive amount written in a row
NegAmount == 1       \* magnitude of the negative amount written in a row

\* ------------------------------------------------------------- f32 values
\* 2^24: every integer of smaller magnitude is an f32 (24-bit significand)
F32Exact == 16777216

\* the spacing of f32 values around magnitude m (1 below 2^24)
RECURSIVE F32Ulp(_, _)
F32Ulp(m, u) == IF m \div u < F32Exact THEN u ELSE F32Ulp(m, 2 * u)

\* a non-negative integer rounded to the nearest f32, ties to even
F32RoundMag(m) ==
    LET u == F32Ulp(m, 1)
        q == m \div u
        r == m % u
    IN  IF 2 * r < u THEN q * u
        ELSE IF 2 * r > u THEN (q + 1) * u
        ELSE IF q % 2 = 0 THEN q * u ELSE (q + 1) * u

F32Round(x) == IF x < 0 THEN 0 - F32RoundMag(0 - x) ELSE F32RoundMag(x)

F32Add(a, b) == F32Round(a + b)
F32Sub(a, b) == F32Round(a - b)

\* ------------------------------------------------------------------- rows
\* sample ids of the u16 client_id and u32 transaction_id columns
ClientIds == {1, 2}
TxIds == {1, 2}
\* amounts written in rows: a negative one, a small one, and 2^24, beyond
\* which sums are rounded
Amounts == {0 - NegAmount, SmallAmount, F32Exact}

\* the text of the amount column: empty, not a number, or a decimal literal
NumericTexts == {ToString(n) : n \in Amounts}
AmountTexts == {"", "abc"} \cup NumericTexts

TransactionTypes ==
    {"deposit", "withdrawal", "dispute", "resolve", "chargeback", "transfer"}

\* rows of the file; a row that is no deposit or withdrawal is written with
\* an empty amount or with one that is not a number
Rows ==
    [transaction_type : {"deposit", "withdrawal"}, client_id : ClientIds,
     transaction_id : TxIds, amount : AmountTexts]
    \cup [transaction_type : TransactionTypes \ {"deposit", "withdrawal"},
          client_id : ClientIds, transaction_id : TxIds, amount : {"", "abc"}]

\* str::parse::<f32>: Ok(value) for a decimal literal, Err otherwise
ParseOk(text) == text \in NumericTexts
ParseTable ==
    [text \in NumericTexts |-> F32Round(CHOOSE n \in Amounts : ToString(n) = text)]
ParseF32(text) == ParseTable[text]

\* --------------------------------------------------------------- accounts
ApprovedTransaction(t, a, d) ==
    [transaction_id |-> t, amount |-> a, in_dispute |-> d]

Client(c, txs, av, h, l) ==
    [client_id |-> c, current_transactions |-> txs,
     available |-> av, held |-> h, locked |-> l]

\* the outcome of a handler: the client it leaves, or a panic (unwrap on Err)
Done(client) == [panicked |-> FALSE, client |-> client]
Panic(client) == [panicked |-> TRUE, client |-> client]

\* process_deposit without the test of locked
process_deposit_unguarded(row, client) ==
    IF ~ParseOk(row.amount) THEN Panic(client)
    ELSE Done([client EXCEPT
             !.available = F32Add(@, ParseF32(row.amount)),
             !.current_transactions =
                 Append(@, ApprovedTransaction(row.transaction_id,
                                               ParseF32(row.amount), FALSE))])

process_deposit(row, client) ==
    IF client.locked THEN Done(client)
    ELSE IF ~ParseOk(row.amount) THEN Panic(client)
    ELSE LET approved_trans ==
                 ApprovedTransaction(row.transaction_id, ParseF32(row.amount), FALSE)
         IN  Done([client EXCEPT
                 !.available = F32Add(@, approved_trans.amount),
                 !.current_transactions = Append(@, approved_trans)])

\* process_withdrawal without the test of the available funds
process_withdrawal_unchecked(row, client) ==
    IF client.locked THEN Done(client)
    ELSE IF ~ParseOk(row.amount) THEN Panic(client)
    ELSE Done([client EXCEPT !.available = F32Sub(@, ParseF32(row.amount))])

\* process_withdrawal comparing with > where the source has >=
process_withdrawal_strict(row, client) ==
    IF client.locked THEN Done(client)
    ELSE IF ~ParseOk(row.amount) THEN Panic(client)
    ELSE LET amount == ParseF32(row.amount)
         IN  IF client.available > amount
             THEN Done([client EXCEPT !.available = F32Sub(@, amount)])
             ELSE Done(client)

process_withdrawal(row, client) ==
    IF client.locked THEN Done(client)
    ELSE IF ~ParseOk(row.amount) THEN Panic(client)
    ELSE LET amount == ParseF32(row.amount)
         IN  IF client.available >= amount
             THEN Done([client EXCEPT !.available = F32Sub(@, amount)])
             ELSE Done(client)

\* one iteration of the loop of process_dispute over current_transactions
DisputeStep(row, client, i) ==
    LET trans == client.current_transactions[i]
    IN  IF trans.transaction_id = row.transaction_id
        THEN [client EXCEPT
                 !.current_transactions[i].in_dispute = TRUE,
                 !.available = F32Sub(@, trans.amount),
                 !.held = F32Add(@, trans.amount)]
        ELSE client

RECURSIVE DisputeLoop(_, _, _)
DisputeLoop(row, client, i) ==
    IF i > Len(client.current_transactions) THEN client
    ELSE DisputeLoop(row, DisputeStep(row, client, i), i + 1)

process_dispute(row, client) ==
    IF client.locked THEN Done(client) ELSE Done(DisputeLoop(row, client, 1))

\* one iteration of the loop of process_resolve
ResolveStep(row, client, i) ==
    LET trans == client.current_transactions[i]
    IN  IF trans.transaction_id = row.transaction_id /\ trans.in_dispute
        THEN [client EXCEPT
                 !.current_transactions[i].in_dispute = FALSE,
                 !.available = F32Add(@, trans.amount),
                 !.held = F32Sub(@, trans.amount)]
        ELSE client

RECURSIVE ResolveLoop(_, _, _)
ResolveLoop(row, client, i) ==
    IF i > Len(client.current_transactions) THEN client
    ELSE ResolveLoop(row, ResolveStep(row, client, i), i + 1)

process_resolve(row, client) ==
    IF client.locked THEN Done(client) ELSE Done(ResolveLoop(row, client, 1))

\* the iteration of process_chargeback without the test of in_dispute
ChargebackStep_any(row, client, i) ==
    LET trans == client.current_transactions[i]
    IN  IF trans.transaction_id = row.transaction_id
        THEN [client EXCEPT
                 !.locked = TRUE,
                 !.held = F32Sub(@, trans.amount)]
        ELSE client

\* one iteration of the loop of process_chargeback
ChargebackStep(row, client, i) ==
    LET trans == client.current_transactions[i]
    IN  IF trans.transaction_id = row.transaction_id /\ trans.in_dispute
        THEN [client EXCEPT
                 !.locked = TRUE,
                 !.held = F32Sub(@, trans.amount)]
        ELSE client

RECURSIVE ChargebackLoop(_, _, _)
ChargebackLoop(row, client, i) ==
    IF i > Len(client.current_transactions) THEN client
    ELSE ChargebackLoop(row, ChargebackStep(row, client, i), i + 1)

process_chargeback(row, client) ==
    IF client.locked THEN Done(client) ELSE Done(ChargebackLoop(row, client, 1))

\* the match on transaction_type for a client that was found
Dispatch(row, client) ==
    CASE row.transaction_type = "deposit" -> process_deposit(row, client)
      [] row.transaction_type = "withdrawal" -> process_withdrawal(row, client)
      [] row.transaction_type = "dispute" -> process_dispute(row, client)
      [] row.transaction_type = "resolve" -> process_resolve(row, client)
      [] row.transaction_type = "chargeback" -> process_chargeback(row, client)
      [] OTHER -> Done(client)

\* positions of the Vec whose client has the id; the loop stops at the first
Positions(cs, c) == {i \in 1..Len(cs) : cs[i].client_id = c}
Found(cs, c) == Positions(cs, c) # {}
FirstPos(cs, c) == CHOOSE i \in Positions(cs, c) : \A j \in Positions(cs, c) : i <= j

\* the first deposit pushed as held funds
NewClient_held(row, amount) ==
    Client(row.client_id,
           <<ApprovedTransaction(row.transaction_id, amount, FALSE)>>,
           0, amount, FALSE)

\* the client pushed for a first deposit
NewClient(row, amount) ==
    Client(row.client_id,
           <<ApprovedTransaction(row.transaction_id, amount, FALSE)>>,
           amount, 0, FALSE)

\* every row for a client that was not found creates it
CreatesClient_always(row) == TRUE

\* a row for a client that was not found creates it only if it is a deposit
CreatesClient(row) == row.transaction_type = "deposit"

\* process_record: the Vec after the row and whether the row panicked
process_record(row, cs) ==
    IF row.amount # "" /\ ~ParseOk(row.amount)
    THEN [panicked |-> TRUE, clients |-> cs]
    ELSE LET amount == IF row.amount # "" THEN ParseF32(row.amount) ELSE 0
         IN  IF Found(cs, row.client_id)
             THEN LET i == FirstPos(cs, row.client_id)
                      out == Dispatch(row, cs[i])
                  IN  [panicked |-> out.panicked,
                       clients |-> [cs EXCEPT ![i] = out.client]]
             ELSE IF CreatesClient(row)
                  THEN [panicked |-> FALSE,
                        clients |-> Append(cs, NewClient(row, amount))]
                  ELSE [panicked |-> FALSE, clients |-> cs]

\* ------------------------------------------------------------------ state
VARIABLES
    clients,    \* the Vec<Client> of main
    status,     \* "reading" while read_csv loops, "panicked" after an unwrap on
                \* Err, "failed" after read_csv returned Err, "done" after main
    nread,      \* rows handed to process_record so far
    failed,     \* the row whose processing panicked (NoRow while none did)
    deposited,  \* client ids of the deposit rows process_record has returned from
    ever_disputed,  \* client ids whose account a dispute row has changed
    withdrawn,  \* per client id, the f32 sum of the withdrawals that succeeded
    charged_back,   \* per client id, the f32 sum of the deposits charged back
    printed,    \* the lines written to standard output
    exit_code   \* the exit code of the process (NotExited while it runs)

vars == <<clients, status, nread, failed, deposited, ever_disputed, withdrawn,
          charged_back, printed, exit_code>>

NoRow == [transaction_type |-> "none", client_id |-> 0,
          transaction_id |-> 0, amount |-> ""]

NotExited == 0 - 1

Init ==
    /\ clients = <<>>
    /\ status = "reading"
    /\ nread = 0
    /\ failed = NoRow
    /\ deposited = {}
    /\ ever_disputed = {}
    /\ withdrawn = [c \in ClientIds |-> 0]
    /\ charged_back = [c \in ClientIds |-> 0]
    /\ printed = <<>>
    /\ exit_code = NotExited

\* the amount a withdrawal row takes: that of the row when process_withdrawal
\* finds the account unlocked and the funds available, else 0
WithdrawnBy(row, cs) ==
    IF /\ row.transaction_type = "withdrawal"
       /\ ParseOk(row.amount)
       /\ Found(cs, row.client_id)
       /\ ~cs[FirstPos(cs, row.client_id)].locked
       /\ cs[FirstPos(cs, row.client_id)].available >= ParseF32(row.amount)
    THEN ParseF32(row.amount)
    ELSE 0

\* acc plus the amounts of the first n stored deposits that a chargeback of
\* transaction_id t takes from held
RECURSIVE ChargedSum(_, _, _, _)
ChargedSum(acc, txs, t, n) ==
    IF n = 0 THEN acc
    ELSE LET before == ChargedSum(acc, txs, t, n - 1)
         IN  IF txs[n].transaction_id = t /\ txs[n].in_dispute
             THEN F32Add(before, txs[n].amount)
             ELSE before

\* acc plus what a chargeback row takes from held: process_chargeback on an
\* unlocked account
ChargedBackBy(acc, row, cs) ==
    IF /\ row.transaction_type = "chargeback"
       /\ row.amount = ""
       /\ Found(cs, row.client_id)
       /\ ~cs[FirstPos(cs, row.client_id)].locked
    THEN LET txs == cs[FirstPos(cs, row.client_id)].current_transactions
         IN  ChargedSum(acc, txs, row.transaction_id, Len(txs))
    ELSE acc

\* what process_record makes of a row in the current state
After(row) == process_record(row, clients)

\* one iteration of the loop of read_csv on a well-formed row; a panic ends
\* the process with the exit code of the Rust runtime and nothing on
\* standard output
ReadRow(row) ==
    /\ status = "reading"
    /\ nread < MaxRecords
    /\ LET out == After(row)
       IN  /\ clients' = out.clients
           /\ status' = IF out.panicked THEN "panicked" ELSE "reading"
           /\ failed' = IF out.panicked THEN row ELSE failed
           /\ deposited' = IF row.transaction_type = "deposit" /\ ~out.panicked
                           THEN deposited \cup {row.client_id} ELSE deposited
           /\ ever_disputed' =
                  IF row.transaction_type = "dispute" /\ out.clients # clients
                  THEN ever_disputed \cup {row.client_id} ELSE ever_disputed
           /\ exit_code' = IF out.panicked THEN 101 ELSE exit_code
    /\ withdrawn' = [withdrawn EXCEPT
                         ![row.client_id] = F32Add(@, WithdrawnBy(row, clients))]
    /\ charged_back' = [charged_back EXCEPT
                            ![row.client_id] = ChargedBackBy(@, row, clients)]
    /\ nread' = nread + 1
    /\ UNCHANGED printed

RowsByType ==
    [type \in TransactionTypes |-> {row \in Rows : row.transaction_type = type}]
RowsOf(type) == RowsByType[type]

Deposit == \E row \in RowsOf("deposit") : ReadRow(row)
Withdrawal == \E row \in RowsOf("withdrawal") : ReadRow(row)
Dispute == \E row \in RowsOf("dispute") : ReadRow(row)
Resolve == \E row \in RowsOf("resolve") : ReadRow(row)
Chargeback == \E row \in RowsOf("chargeback") : ReadRow(row)
OtherType == \E row \in RowsOf("transfer") : ReadRow(row)

\* {:.4} of an f32 with an integer value
Fmt4(x) == ToString(x) \o ".0000"

\* the line main prints for a client
AccountLine(client) ==
    ToString(client.client_id) \o "," \o Fmt4(client.available) \o ","
        \o Fmt4(client.held) \o ","
        \o Fmt4(F32Add(client.held, client.available)) \o ","
        \o (IF client.locked THEN "true" ELSE "false")

Header == "client, available, held, total, locked"

\* main after read_csv returned Err, with the header printed all the same
OnErr_header == [printed |-> <<"Error running readcsv", Header>>, exit_code |-> 1]

\* main after read_csv returned Err: the error is printed and the process
\* exits with code 1
OnErr == [printed |-> <<"Error running readcsv">>, exit_code |-> 1]

\* main after read_csv returned Ok: the header and one line for each client
\* of the Vec, in its order
OnOk(cs) ==
    [printed |-> <<Header>> \o [i \in 1..Len(cs) |-> AccountLine(cs[i])],
     exit_code |-> 0]

\* the file cannot be opened, or the next record cannot be read or
\* deserialized into a Row: read_csv returns the error to main
ReadError ==
    /\ status = "reading"
    /\ status' = "failed"
    /\ printed' = OnErr.printed
    /\ exit_code' = OnErr.exit_code
    /\ UNCHANGED <<clients, nread, failed, deposited, ever_disputed,
                   withdrawn, charged_back>>

\* the records are exhausted: read_csv returns Ok(()) and main prints
EndOfFile ==
    /\ status = "reading"
    /\ status' = "done"
    /\ printed' = OnOk(clients).printed
    /\ exit_code' = OnOk(clients).exit_code
    /\ UNCHANGED <<clients, nread, failed, deposited, ever_disputed,
                   withdrawn, charged_back>>

Next ==
    \/ Deposit \/ Withdrawal \/ Dispute \/ Resolve \/ Chargeback \/ OtherType
    \/ ReadError \/ EndOfFile

Spec == Init /\ [][Next]_vars

\* ----------------------------------------------------------------- claims
\* The contract of a row is stated over every reachable state in which
\* read_csv reads another row and over every row the file can hold there:
\* After(row) is what ReadRow(row) assigns.  Sums and differences of amounts
\* are those of the f32 fields (F32Add, F32Sub); the total of an account is
\* held + available as main prints it.

Reading == status = "reading"
Running == Reading /\ nread < MaxRecords
Account(cs, c) == cs[FirstPos(cs, c)]
Unlocked(c) == Found(clients, c) /\ ~Account(clients, c).locked
Matching(client, t) ==
    {i \in 1..Len(client.current_transactions) :
        client.current_transactions[i].transaction_id = t}

\* C1: a locked account stays locked and no row of any type for its client
\* changes it (available, held, locked, stored deposits) or any other
\* account.
C1_LockedIsTerminal ==
    Running => \A row \in Rows :
        (Found(clients, row.client_id) /\ Account(clients, row.client_id).locked)
            => After(row).clients = clients

\* a locked account with rows still to come
C1_Witness ==
    /\ Running
    /\ \E c \in ClientIds : Found(clients, c) /\ Account(clients, c).locked

Refers(row) ==
    /\ row.amount = ""
    /\ Unlocked(row.client_id)
    /\ Matching(Account(clients, row.client_id), row.transaction_id) # {}

\* C3: a dispute naming a deposit stored in an unlocked account marks the
\* deposit in dispute, takes exactly the deposit's amount from available and
\* adds exactly that amount to held, whatever available was; available + held
\* and locked do not change.
C3_DisputeMovesTheAmount ==
    Running => \A row \in RowsOf("dispute") :
        Refers(row) =>
            LET old == Account(clients, row.client_id)
                new == Account(After(row).clients, row.client_id)
            IN  \A i \in Matching(old, row.transaction_id) :
                    LET amount == old.current_transactions[i].amount
                    IN  /\ new.current_transactions[i].in_dispute
                        /\ new.available = F32Sub(old.available, amount)
                        /\ new.held = F32Add(old.held, amount)
                        /\ F32Add(new.available, new.held) =
                               F32Add(old.available, old.held)
                        /\ new.locked = old.locked

\* C4: on an unlocked account, a dispute of a stored deposit followed at once
\* by a resolve of the same transaction_id leaves available and held as they
\* were before the dispute and the deposit not in dispute.  (Stated in every
\* state in which read_csv is looping: the two rows are what process_record
\* makes of them one after the other.)
C4_DisputeThenResolve ==
    Reading => \A row \in RowsOf("dispute") :
        Refers(row) =>
            LET i == FirstPos(clients, row.client_id)
                disputed == process_record(row, clients)
                resolved == process_record(
                    [row EXCEPT !.transaction_type = "resolve"], disputed.clients)
                old == clients[i]
                new == resolved.clients[i]
            IN  /\ ~disputed.panicked /\ ~resolved.panicked
                /\ new.available = old.available
                /\ new.held = old.held
                /\ \A k \in Matching(old, row.transaction_id) :
                       ~new.current_transactions[k].in_dispute

\* C5: a chargeback naming a stored deposit that is in dispute, on an
\* unlocked account, locks the account, takes exactly the deposit's amount
\* from held and leaves available alone, so available + held drops by exactly
\* that amount.
C5_ChargebackTakesTheAmount ==
    Running => \A row \in RowsOf("chargeback") :
        Refers(row) =>
            LET old == Account(clients, row.client_id)
                new == Account(After(row).clients, row.client_id)
            IN  \A i \in Matching(old, row.transaction_id) :
                    LET amount == old.current_transactions[i].amount
                    IN  old.current_transactions[i].in_dispute =>
                            /\ new.locked
                            /\ new.held = F32Sub(old.held, amount)
                            /\ new.available = old.available
                            /\ F32Add(new.available, new.held) =
                                   F32Sub(F32Add(old.available, old.held), amount)

\* C6: the account set is left as it was by a row of an unrecognized type,
\* by a dispute, resolve or chargeback whose transaction_id matches no deposit
\* stored in the account of its client (or whose client has no account), and
\* by a resolve or chargeback all of whose matching deposits are not in
\* dispute.
NoMatch(row) ==
    \/ ~Found(clients, row.client_id)
    \/ Matching(Account(clients, row.client_id), row.transaction_id) = {}

NoneInDispute(row) ==
    /\ Found(clients, row.client_id)
    /\ Matching(Account(clients, row.client_id), row.transaction_id) # {}
    /\ \A i \in Matching(Account(clients, row.client_id), row.transaction_id) :
           ~Account(clients, row.client_id).current_transactions[i].in_dispute

Discarded(row) ==
    \/ row.transaction_type = "transfer"
    \/ row.transaction_type \in {"dispute", "resolve", "chargeback"} /\ NoMatch(row)
    \/ row.transaction_type \in {"resolve", "chargeback"} /\ NoneInDispute(row)

C6_DiscardedRowsChangeNothing ==
    Running => \A row \in Rows : Discarded(row) => After(row).clients = clients

\* an unlocked account that stores one transaction_id and not the other, with
\* its deposit not in dispute and funds available, rows still to come
C6_Witness ==
    /\ Running
    /\ \E c \in ClientIds, t, u \in TxIds :
           /\ Unlocked(c)
           /\ Account(clients, c).available # 0
           /\ Matching(Account(clients, c), u) = {}
           /\ \E i \in Matching(Account(clients, c), t) :
                  /\ Account(clients, c).current_transactions[i].amount # 0
                  /\ ~Account(clients, c).current_transactions[i].in_dispute

C8_AccountsAreTheDepositors ==
    /\ \A c \in ClientIds :
           /\ Found(clients, c) <=> c \in deposited
           /\ Cardinality(Positions(clients, c)) <= 1
    /\ Running => \A row \in Rows :
           LET after == After(row).clients
           IN  /\ \A c \in ClientIds : Found(clients, c) => Found(after, c)
               /\ (row.transaction_type # "deposit" /\ ~Found(clients, row.client_id))
                      => ~Found(after, row.client_id)

\* one client has an account and another has none, rows still to come
C8_Witness ==
    /\ Running
    /\ \E c, d \in ClientIds : ~Found(clients, c) /\ Found(clients, d)

\* C9: no row fails on an amount that is written but is not a number: the
\* row is discarded and the replay goes on.
C9_MalformedAmountIsDiscarded ==
    ~(status = "panicked" /\ failed.amount # "" /\ ~ParseOk(failed.amount))

\* C10: a deposit row with an empty amount never fails: for a client without
\* an account and for an unlocked account alike it stores a deposit of 0 and
\* leaves available as it was (0 for the new account).
C10_EmptyDepositIsZero ==
    /\ ~(status = "panicked" /\ failed.transaction_type = "deposit"
            /\ failed.amount = "")
    /\ Running => \A row \in RowsOf("deposit") :
           (/\ row.amount = ""
            /\ ~Found(clients, row.client_id) \/ Unlocked(row.client_id)
            /\ ~After(row).panicked)
               => LET stored == ApprovedTransaction(row.transaction_id, 0, FALSE)
                  IN  After(row).clients =
                          IF Found(clients, row.client_id)
                          THEN [clients EXCEPT
                                   ![FirstPos(clients, row.client_id)].current_transactions =
                                       Append(@, stored)]
                          ELSE Append(clients,
                                      Client(row.client_id, <<stored>>, 0, 0, FALSE))

\* C11: when the reader fails at a position of the input (the file cannot be
\* opened, or a record cannot be read or decoded into a Row), the replay is
\* over: no step is taken from there (no later record is applied), exactly
\* one line, the error, is on standard output (no header, no account line),
\* and the exit code is 1, whatever the records before it did to the accounts.
C11_ReadErrorAborts ==
    /\ [](status = "failed" =>
              /\ printed = <<"Error running readcsv">>
              /\ exit_code = 1)
    /\ [][status # "failed"]_vars

\* the reader failed after records had created accounts, with room for more
\* records
C11_Witness ==
    /\ status = "failed"
    /\ clients # <<>>
    /\ 0 < nread /\ nread < MaxRecords

\* C12: every well-formed record handed to the driver is applied to
\* completion and the replay is never cut short by one of them; when the
\* records are exhausted the driver has written the header and exactly one
\* line for each account created during the run, in the order the accounts
\* were created, the total of each line being held + available of the final
\* state, and exits with code 0.
C12_ReplayCompletes ==
    /\ status # "panicked"
    /\ status = "done" =>
           /\ exit_code = 0
           /\ Len(printed) = Len(clients) + 1
           /\ printed[1] = Header
           /\ \A i \in 1..Len(clients) : printed[i + 1] = AccountLine(clients[i])

\* the accounts of client c alone
Shard(cs, c) == IF Found(cs, c) THEN <<Account(cs, c)>> ELSE <<>>

\* C13: a row with client_id c leaves the account of every other client d as
\* it was (and creates none for d); a dispute, resolve or chargeback of c
\* whose transaction_id is stored only in another client's account changes
\* nothing; what a row does to the account of c is what it does to that
\* account replayed alone; and so the outcome of the replay for an account
\* is that of replaying the rows of its client alone: in particular a replay
\* is never ended by a row of another client than the one the account
\* belongs to.
C13_ClientsAreIndependent ==
    /\ Running => \A row \in Rows :
           /\ \A d \in ClientIds \ {row.client_id} :
                  Shard(After(row).clients, d) = Shard(clients, d)
           /\ (/\ row.transaction_type \in {"dispute", "resolve", "chargeback"}
               /\ NoMatch(row)
               /\ \E d \in ClientIds \ {row.client_id} :
                      /\ Found(clients, d)
                      /\ Matching(Account(clients, d), row.transaction_id) # {})
                  => After(row).clients = clients
           /\ LET alone == process_record(row, Shard(clients, row.client_id))
              IN  /\ alone.panicked = After(row).panicked
                  /\ alone.clients = Shard(After(row).clients, row.client_id)
    /\ status = "panicked" =>
           \A d \in ClientIds \ {failed.client_id} : ~Found(clients, d)

\* C14: a dispute naming a stored deposit that is already in dispute, on an
\* unlocked account, acts again: it takes the deposit's amount from available
\* once more and adds it to held once more, and the deposit stays in dispute
\* (so the row is no no-op unless the amount is 0).
C14_SecondDisputeActsAgain ==
    Running => \A row \in RowsOf("dispute") :
        Refers(row) =>
            LET old == Account(clients, row.client_id)
                new == Account(After(row).clients, row.client_id)
            IN  \A i \in Matching(old, row.transaction_id) :
                    LET amount == old.current_transactions[i].amount
                    IN  old.current_transactions[i].in_dispute =>
                            /\ new.current_transactions[i].in_dispute
                            /\ new.available = F32Sub(old.available, amount)
                            /\ new.held = F32Add(old.held, amount)
                            /\ amount # 0 => new # old

\* C15: in every state the deposits stored in one account have pairwise
\* distinct transaction_ids, so that a dispute, resolve or chargeback finds
\* at most one stored deposit under its transaction_id; a deposit with an id
\* already stored in the account does not leave two records with that id.
C15_TransactionIdsAreUnique ==
    \A k \in 1..Len(clients) : \A t \in TxIds :
        Cardinality(Matching(clients[k], t)) <= 1

\* the deposits stored in the account are of non-negative amounts
NonNegative(client) ==
    \A i \in 1..Len(client.current_transactions) :
        client.current_transactions[i].amount >= 0

\* the amount column of the row is not a negative number
NonNegativeRow(row) == ParseOk(row.amount) => ParseF32(row.amount) >= 0

\* C16: with deposits and withdrawals of non-negative amounts only, a row
\* that takes the available funds of an account from >= 0 to < 0 is a
\* dispute, a first deposit leaves available >= 0, and an account that no
\* dispute has changed has available >= 0.
C16_OnlyDisputeGoesNegative ==
    /\ \A k \in 1..Len(clients) :
           (NonNegative(clients[k]) /\ clients[k].client_id \notin ever_disputed)
               => clients[k].available >= 0
    /\ Running => \A row \in Rows :
           (/\ NonNegativeRow(row)
            /\ Found(clients, row.client_id)
            /\ NonNegative(Account(clients, row.client_id))
            /\ Account(clients, row.client_id).available >= 0
            /\ Account(After(row).clients, row.client_id).available < 0)
               => row.transaction_type = "dispute"

\* an unlocked account that no dispute has changed, emptied by a withdrawal
\* while it stores a deposit of a positive amount, rows still to come
C16_Witness ==
    /\ Running
    /\ \E c \in ClientIds :
           /\ Unlocked(c)
           /\ c \notin ever_disputed
           /\ NonNegative(Account(clients, c))
           /\ Account(clients, c).available = 0
           /\ \E i \in 1..Len(Account(clients, c).current_transactions) :
                  Account(clients, c).current_transactions[i].amount > 0

\* the f32 sum of the amounts of the first n stored deposits that are in
\* dispute
RECURSIVE InDisputeSum(_, _)
InDisputeSum(txs, n) ==
    IF n = 0 THEN 0
    ELSE F32Add(InDisputeSum(txs, n - 1),
                IF txs[n].in_dispute THEN txs[n].amount ELSE 0)

\* C17: in every state, the held funds of an unlocked account are the sum of
\* the amounts of its stored deposits that are in dispute (0 when none is).
C17_HeldIsTheDisputedSum ==
    \A k \in 1..Len(clients) :
        ~clients[k].locked =>
            clients[k].held =
                InDisputeSum(clients[k].current_transactions,
                             Len(clients[k].current_transactions))

\* the f32 sum of the amounts of the first n stored deposits; every deposit
\* applied to an account is stored in it
RECURSIVE DepositSum(_, _)
DepositSum(txs, n) ==
    IF n = 0 THEN 0 ELSE F32Add(DepositSum(txs, n - 1), txs[n].amount)

C19_HeldIsNeverNegative ==
    \A k \in 1..Len(clients) : NonNegative(clients[k]) => clients[k].held >= 0

\* C20: whatever amount the parser accepts, negative ones included, a
\* withdrawal row leaves the available funds of its account no larger than
\* they were and a deposit row leaves them no smaller.
C20_AmountSignIsRespected ==
    Running => \A row \in Rows :
        (ParseOk(row.amount) /\ Found(clients, row.client_id)) =>
            LET old == Account(clients, row.client_id)
                new == Account(After(row).clients, row.client_id)
            IN  /\ row.transaction_type = "withdrawal" => new.available <= old.available
                /\ row.transaction_type = "deposit" => new.available >= old.available

====
